---- MODULE Spec2Model ----
(***************************************************************************)
(* Model of process_conversations.py: the thread reconstructor             *)
(* (reconstruct_threads), the segmenter (split_segments) and the driver    *)
(* that fixes the gap threshold (__main__, process_file).                  *)
(*                                                                         *)
(* A Python value that may be None is a sequence of length <= 1:           *)
(* None is << >> and a present value x is << x >>.                         *)
(***************************************************************************)
EXTENDS Integers, Sequences, FiniteSets

\* ------------------------------------------------------------------ bounds
MaxLen == 3           \* longest thread handed to split_segments

\* ------------------------------------------------------------- value sets
None == << >>
Some(x) == << x >>

Roles == {None, Some("user"), Some("assistant")}
Texts == {"p"}
Times == {None, Some(-1), Some(0), Some(2)}
Gaps == {1, 2}
\* --gap-minutes values, as fractions <<numerator, denominator>>
GapMinutes == {<<1, 30>>, <<1, 60>>, <<5, 100>>}

Message == [role : Roles, text : Texts, time : Times]

SeqsUpTo(S, n) == UNION {[1..k -> S] : k \in 0..n}

Range(s) == {s[k] : k \in DOMAIN s}

RECURSIVE Concat(_)
Concat(ss) == IF ss = << >> THEN << >> ELSE Head(ss) \o Concat(Tail(ss))

\* the multiset of the elements of a sequence
BagOf(s) == [m \in Range(s) |-> Cardinality({k \in DOMAIN s : s[k] = m})]

VARIABLES
  \* ---- module globals and the driver
  GAP_SECONDS,      \* the module global (line 5, rebound by line 145)
  default_gap,      \* split_segments' default for gap_seconds (line 76)
  pc,               \* control point of the segmenter run
  caller,           \* who called split_segments: "api", "process_file", "again"
  \* ---- split_segments
  arg,              \* the messages argument as passed
  gap_seconds,      \* the gap_seconds parameter
  messages,         \* the local list after sorted() (line 82)
  segments,         \* line 83
  current,          \* line 84
  i,                \* index of prev in the zip of line 86
  fed,              \* the segment handed back to split_segments, if any
  \* ---- reconstruct_threads
  rpc,              \* control point of the reconstructor run
  nodes,            \* the nodes dict built by lines 35-53
  leaves,           \* line 55
  li,               \* index of the leaf the for loop of line 57 is at
  threads,          \* line 56
  path,             \* line 58
  seen,             \* line 59
  cur,              \* line 60
  visit,            \* history: the ids the while loop of this walk iterated on
  steps,            \* history: how often line 68 ran in this walk
  threadVisit       \* history: for every returned thread, the visit of its walk

segVars == <<GAP_SECONDS, default_gap, pc, caller, arg, gap_seconds, messages,
             segments, current, i, fed>>

thrVars == <<rpc, nodes, leaves, li, threads, path, seen, cur, visit, steps,
             threadVisit>>

vars == <<segVars, thrVars>>

\* ------------------------------------------------------------ split_segments

\* key=lambda m: m.get("time") or 0       (line 82)
SortKey(m) == IF m.time = None \/ m.time[1] = 0 THEN 0 ELSE m.time[1]

\* a sort that is not stable: m goes in front of the elements of equal key
RECURSIVE InsertUnstable(_, _)
InsertUnstable(s, m) ==
  IF s = << >> THEN << m >>
  ELSE IF SortKey(Head(s)) < SortKey(m)
       THEN << Head(s) >> \o InsertUnstable(Tail(s), m)
       ELSE << m >> \o s

\* insertion of m behind every element whose key is <= its own: sorted() is stable
RECURSIVE InsertStable(_, _)
InsertStable(s, m) ==
  IF s = << >> THEN << m >>
  ELSE IF SortKey(Head(s)) <= SortKey(m)
       THEN << Head(s) >> \o InsertStable(Tail(s), m)
       ELSE << m >> \o s

RECURSIVE Sorted(_)
Sorted(s) ==
  IF s = << >> THEN << >>
  ELSE InsertStable(Sorted(SubSeq(s, 1, Len(s) - 1)), s[Len(s)])

\* the comparison of line 92 written with >= instead of >
TimeGapNotStrict(prevMsg, curMsg, gap) ==
  /\ prevMsg.time # None
  /\ curMsg.time # None
  /\ curMsg.time[1] - prevMsg.time[1] >= gap

\* lines 87-93
TimeGap(prevMsg, curMsg, gap) ==
  /\ prevMsg.time # None
  /\ curMsg.time # None
  /\ curMsg.time[1] - prevMsg.time[1] > gap

\* line 95
RoleChange(prevMsg, curMsg) == prevMsg.role # curMsg.role

\* line 97
NewSegment(prevMsg, curMsg, gap) == TimeGap(prevMsg, curMsg, gap) \/ RoleChange(prevMsg, curMsg)

\* int(args.gap_minutes * 60)              (line 145), M = <<num, den>> >= 0
GapSecondsOf(M) == (M[1] * 60) \div M[2]

SegInit ==
  /\ GAP_SECONDS = 30 * 60
  /\ default_gap = 30 * 60
  /\ pc = "start"
  /\ caller = "none"
  /\ arg = << >>
  /\ gap_seconds = 0
  /\ messages = << >>
  /\ segments = << >>
  /\ current = << >>
  /\ i = 0
  /\ fed = << >>

\* the module is imported: split_segments is called as a library function
Import ==
  /\ pc = "start"
  /\ pc' = "idle"
  /\ caller' = "api"
  /\ UNCHANGED <<GAP_SECONDS, default_gap, arg, gap_seconds, messages, segments,
                 current, i, fed>>
  /\ UNCHANGED thrVars

\* lines 136-146: the script rebinds the global, then calls process_file
Main ==
  /\ pc = "start"
  /\ \E M \in GapMinutes : GAP_SECONDS' = GapSecondsOf(M)
  /\ pc' = "idle"
  /\ caller' = "process_file"
  /\ UNCHANGED <<default_gap, arg, gap_seconds, messages, segments, current, i, fed>>
  /\ UNCHANGED thrVars

\* split_segments(T, g) called with an explicit gap
CallSplit ==
  /\ pc = "idle" /\ caller = "api"
  /\ \E T \in SeqsUpTo(Message, MaxLen), g \in Gaps :
       /\ arg' = T
       /\ gap_seconds' = g
  /\ pc' = "enter"
  /\ fed' = << >>
  /\ UNCHANGED <<GAP_SECONDS, default_gap, caller, messages, segments, current, i>>
  /\ UNCHANGED thrVars

\* line 132: segments = split_segments(thread); gap_seconds takes its default.
\* A thread built by reconstruct_threads is non-empty and every entry has a role.
ProcessFile ==
  /\ pc = "idle" /\ caller = "process_file"
  /\ \E T \in SeqsUpTo(Message, MaxLen) :
       /\ T # << >>
       /\ \A k \in DOMAIN T : T[k].role # None
       /\ arg' = T
  /\ gap_seconds' = default_gap
  /\ pc' = "enter"
  /\ fed' = << >>
  /\ UNCHANGED <<GAP_SECONDS, default_gap, caller, messages, segments, current, i>>
  /\ UNCHANGED thrVars

\* lines 79-84
Enter ==
  /\ pc = "enter"
  /\ IF arg = << >>
     THEN /\ pc' = "done"
          /\ segments' = << >>
          /\ UNCHANGED <<messages, current, i>>
     ELSE /\ messages' = Sorted(arg)
          /\ segments' = << >>
          /\ current' = << Sorted(arg)[1] >>
          /\ i' = 1
          /\ pc' = "scan"
  /\ UNCHANGED <<GAP_SECONDS, default_gap, caller, arg, gap_seconds, fed>>
  /\ UNCHANGED thrVars

\* lines 86-101: one iteration over zip(messages, messages[1:])
ScanPair ==
  /\ pc = "scan"
  /\ i < Len(messages)
  /\ LET prevMsg == messages[i]
         curMsg == messages[i + 1]
     IN IF NewSegment(prevMsg, curMsg, gap_seconds)
        THEN /\ segments' = Append(segments, current)
             /\ current' = << curMsg >>
        ELSE /\ current' = Append(current, curMsg)
             /\ UNCHANGED segments
  /\ i' = i + 1
  /\ UNCHANGED <<GAP_SECONDS, default_gap, pc, caller, arg, gap_seconds, messages, fed>>
  /\ UNCHANGED thrVars

\* the return without lines 103-104: the open segment is forgotten
EmitForgetsOpen ==
  /\ pc = "scan"
  /\ i >= Len(messages)
  /\ pc' = "done"
  /\ UNCHANGED <<GAP_SECONDS, default_gap, caller, arg, gap_seconds, messages,
                 segments, current, i, fed>>
  /\ UNCHANGED thrVars

\* lines 103-106
Emit ==
  /\ pc = "scan"
  /\ i >= Len(messages)
  /\ segments' = IF current # << >> THEN Append(segments, current) ELSE segments
  /\ pc' = "done"
  /\ UNCHANGED <<GAP_SECONDS, default_gap, caller, arg, gap_seconds, messages,
                 current, i, fed>>
  /\ UNCHANGED thrVars

\* the caller runs split_segments on one of the returned segments
SplitAgain ==
  /\ pc = "done" /\ caller = "api"
  /\ \E k \in DOMAIN segments :
       /\ arg' = segments[k]
       /\ fed' = segments[k]
  /\ caller' = "again"
  /\ pc' = "enter"
  /\ messages' = << >>
  /\ segments' = << >>
  /\ current' = << >>
  /\ i' = 0
  /\ UNCHANGED <<GAP_SECONDS, default_gap, gap_seconds>>
  /\ UNCHANGED thrVars

\* the call returns; the locals die
Return ==
  /\ pc = "done"
  /\ pc' = "idle"
  /\ caller' = IF caller = "again" THEN "api" ELSE caller
  /\ arg' = << >>
  /\ gap_seconds' = 0
  /\ messages' = << >>
  /\ segments' = << >>
  /\ current' = << >>
  /\ i' = 0
  /\ fed' = << >>
  /\ UNCHANGED <<GAP_SECONDS, default_gap>>
  /\ UNCHANGED thrVars

Next ==
  \/ Import
  \/ Main
  \/ CallSplit
  \/ ProcessFile
  \/ Enter
  \/ ScanPair
  \/ Emit
  \/ SplitAgain
  \/ Return

\* ------------------------------------------------------- reconstruct_threads

\* the ids a mapping may use; a parent id outside the mapping's keys is a
\* dangling link.  Ids are non-empty strings.
Ids == {"a", "b", "c"}
\* the iteration order of the dict (insertion order of the keys)
IdOrder == <<"a", "b", "c">>
\* author.role as found in the export: missing, empty or a name
NodeRoles == {None, Some(""), Some("user")}
\* the text and the time lines 44-51 produce for each node
NodeText == [n \in Ids |-> IF n = "a" THEN "hi" ELSE IF n = "b" THEN "" ELSE "x\ny"]
NodeTime == [n \in Ids |-> IF n = "a" THEN Some(100) ELSE IF n = "b" THEN None ELSE Some(0)]

\* the children list of node n: empty, the nodes that name n as their
\* parent, or a list that names every id
ChildrenModes == {"empty", "linked", "all"}
ChildrenFor(mode, n, D, par) ==
  IF mode = "empty" THEN {}
  ELSE IF mode = "linked" THEN {c \in D : par[c] = Some(n)}
  ELSE Ids

\* lines 35-53: the node records of a mapping with keys D
NodesOf(D, par, mode, ro) ==
  [n \in D |-> [parent |-> par[n],
                children |-> ChildrenFor(mode[n], n, D, par),
                role |-> ro[n],
                text |-> NodeText[n],
                time |-> NodeTime[n]]]

\* truth value of a role in "if node.get('role')"  (line 66)
HasRole(r) == r # None /\ r[1] # ""

RECURSIVE Filter(_, _)
Filter(s, nd) ==
  IF s = << >> THEN << >>
  ELSE IF nd[Head(s)].children = {}
       THEN << Head(s) >> \o Filter(Tail(s), nd)
       ELSE Filter(Tail(s), nd)

RECURSIVE Keys(_, _)
Keys(order, D) ==
  IF order = << >> THEN << >>
  ELSE IF Head(order) \in D
       THEN << Head(order) >> \o Keys(Tail(order), D)
       ELSE Keys(Tail(order), D)

\* leaves found from the parent links instead: the nodes no node names as parent
LeavesByParentLinks(nd) ==
  Filter(Keys(IdOrder, DOMAIN nd),
         [n \in DOMAIN nd |->
            [children |-> {c \in DOMAIN nd : nd[c].parent = Some(n)}]])

\* line 55: leaves = [mid for mid, n in nodes.items() if not n["children"]]
LeavesOf(nd) == Filter(Keys(IdOrder, DOMAIN nd), nd)

\* line 67: the entry a node contributes
Entry(node) == [role |-> node.role, text |-> node.text, time |-> node.time]

Reverse(s) == [k \in 1..Len(s) |-> s[Len(s) + 1 - k]]

\* the loop condition without the visited-set guard
WhileCondNoGuard == cur # None

\* line 61: while cur and cur not in seen
WhileCond == cur # None /\ cur[1] \notin seen

ThrInit ==
  /\ rpc = "idle"
  /\ nodes = << >>
  /\ leaves = << >>
  /\ li = 0
  /\ threads = << >>
  /\ path = << >>
  /\ seen = {}
  /\ cur = None
  /\ visit = << >>
  /\ steps = 0
  /\ threadVisit = << >>

\* lines 32-56: reconstruct_threads(mapping) up to the for loop
CallReconstruct ==
  /\ rpc = "idle"
  /\ \E D \in SUBSET Ids :
       \E par \in [D -> {None} \cup {Some(p) : p \in Ids}],
          mode \in [D -> ChildrenModes],
          ro \in [D -> NodeRoles] :
         LET nd == NodesOf(D, par, mode, ro)
         IN /\ nodes' = nd
            /\ IF D = {}
               THEN /\ rpc' = "done"
                    /\ leaves' = << >>
                    /\ li' = 0
               ELSE /\ rpc' = "for"
                    /\ leaves' = LeavesOf(nd)
                    /\ li' = 1
  /\ threads' = << >>
  /\ threadVisit' = << >>
  /\ UNCHANGED <<path, seen, cur, visit, steps>>
  /\ UNCHANGED segVars

\* the for loop without line 59: one visited set shared by all walks
NextLeafKeepsSeen ==
  /\ rpc = "for"
  /\ li <= Len(leaves)
  /\ path' = << >>
  /\ cur' = Some(leaves[li])
  /\ visit' = << >>
  /\ steps' = 0
  /\ rpc' = "while"
  /\ UNCHANGED <<nodes, leaves, li, threads, threadVisit, seen>>
  /\ UNCHANGED segVars

\* lines 57-60: the for loop takes the next leaf
NextLeaf ==
  /\ rpc = "for"
  /\ li <= Len(leaves)
  /\ path' = << >>
  /\ seen' = {}
  /\ cur' = Some(leaves[li])
  /\ visit' = << >>
  /\ steps' = 0
  /\ rpc' = "while"
  /\ UNCHANGED <<nodes, leaves, li, threads, threadVisit>>
  /\ UNCHANGED segVars

\* an iteration that leaves the loop at a node without a role
WalkStepBreaksOnRoleless ==
  /\ rpc = "while"
  /\ WhileCond
  /\ seen' = seen \cup {cur[1]}
  /\ visit' = Append(visit, cur[1])
  /\ IF cur[1] \notin DOMAIN nodes
     THEN /\ rpc' = "after"
          /\ UNCHANGED <<path, cur, steps>>
     ELSE LET node == nodes[cur[1]]
          IN IF HasRole(node.role)
             THEN /\ path' = Append(path, Entry(node))
                  /\ cur' = node.parent
                  /\ steps' = steps + 1
                  /\ UNCHANGED rpc
             ELSE /\ rpc' = "after"
                  /\ UNCHANGED <<path, cur, steps>>
  /\ UNCHANGED <<nodes, leaves, li, threads, threadVisit>>
  /\ UNCHANGED segVars

\* lines 61-68: one iteration of the while loop
WalkStep ==
  /\ rpc = "while"
  /\ WhileCond
  /\ seen' = seen \cup {cur[1]}
  /\ visit' = Append(visit, cur[1])
  /\ IF cur[1] \notin DOMAIN nodes
     THEN \* line 65: break
          /\ rpc' = "after"
          /\ UNCHANGED <<path, cur, steps>>
     ELSE LET node == nodes[cur[1]]
          IN /\ path' = IF HasRole(node.role) THEN Append(path, Entry(node)) ELSE path
             /\ cur' = node.parent
             /\ steps' = steps + 1
             /\ UNCHANGED rpc
  /\ UNCHANGED <<nodes, leaves, li, threads, threadVisit>>
  /\ UNCHANGED segVars

\* the end of a walk that treats a revisited id as an error and drops the path
EndWalkDropsCyclic ==
  /\ \/ rpc = "after"
     \/ rpc = "while" /\ ~WhileCond
  /\ IF path # << >> /\ ~(rpc = "while" /\ cur # None /\ cur[1] \in seen)
     THEN /\ threads' = Append(threads, Reverse(path))
          /\ threadVisit' = Append(threadVisit, visit)
     ELSE UNCHANGED <<threads, threadVisit>>
  /\ li' = li + 1
  /\ rpc' = "for"
  /\ UNCHANGED <<nodes, leaves, path, seen, cur, visit, steps>>
  /\ UNCHANGED segVars

\* lines 69-71, after the loop ended (condition false, or break)
EndWalk ==
  /\ \/ rpc = "after"
     \/ rpc = "while" /\ ~WhileCond
  /\ IF path # << >>
     THEN /\ threads' = Append(threads, Reverse(path))
          /\ threadVisit' = Append(threadVisit, visit)
     ELSE UNCHANGED <<threads, threadVisit>>
  /\ li' = li + 1
  /\ rpc' = "for"
  /\ UNCHANGED <<nodes, leaves, path, seen, cur, visit, steps>>
  /\ UNCHANGED segVars

\* line 73
ReturnThreads ==
  /\ rpc = "for"
  /\ li > Len(leaves)
  /\ rpc' = "done"
  /\ UNCHANGED <<nodes, leaves, li, threads, path, seen, cur, visit, steps, threadVisit>>
  /\ UNCHANGED segVars

\* the caller is done with the result
Forget ==
  /\ rpc = "done"
  /\ rpc' = "idle"
  /\ nodes' = << >>
  /\ leaves' = << >>
  /\ li' = 0
  /\ threads' = << >>
  /\ path' = << >>
  /\ seen' = {}
  /\ cur' = None
  /\ visit' = << >>
  /\ steps' = 0
  /\ threadVisit' = << >>
  /\ UNCHANGED segVars

NextThreads ==
  \/ CallReconstruct
  \/ NextLeaf
  \/ WalkStep
  \/ EndWalk
  \/ ReturnThreads
  \/ Forget

Init == SegInit /\ ThrInit

Spec == Init /\ [][Next]_vars

SpecThreads == Init /\ [][NextThreads]_vars

\* ======================================================== segmenter claims

\* number of messages in the first k segments
PrefixLen(ss, k) == Len(Concat(SubSeq(ss, 1, k)))

\* positions j such that a segment ends at j and the next one starts at j + 1
Boundaries(ss) == {PrefixLen(ss, k) : k \in 1..(Len(ss) - 1)}

\* C1: when split_segments returns, the concatenation of the segments holds
\* exactly the multiset of messages of the argument, every segment is
\* non-empty, and an empty argument gives an empty list.
Thm_C1_Coverage ==
  pc = "done" =>
    /\ BagOf(Concat(segments)) = BagOf(arg)
    /\ \A k \in DOMAIN segments : segments[k] # << >>
    /\ (arg = << >> => segments = << >>)

Wit_C1_Coverage ==
  /\ pc = "done"
  /\ Len(segments) >= 2
  /\ \E j, k \in DOMAIN arg : j < k /\ arg[j] = arg[k]

\* C2: when split_segments returns, a segment boundary lies between two
\* consecutive messages of the sorted list exactly when both times are known
\* and differ by more than gap_seconds, or the roles differ.
Thm_C2_BoundaryRule ==
  (pc = "done" /\ arg # << >>) =>
    /\ Concat(segments) = messages
    /\ \A j \in 1..(Len(messages) - 1) :
         (j \in Boundaries(segments)) <=>
           \/ /\ messages[j].time # None
              /\ messages[j + 1].time # None
              /\ messages[j + 1].time[1] - messages[j].time[1] > gap_seconds
           \/ messages[j].role # messages[j + 1].role

\* one segment holding a pair whose gap equals the threshold and a pair
\* with exactly one known time
Wit_C2_BoundaryRule ==
  /\ pc = "done"
  /\ Len(segments) = 1
  /\ \E j \in 1..(Len(messages) - 1) :
       /\ messages[j].time # None /\ messages[j + 1].time # None
       /\ messages[j + 1].time[1] - messages[j].time[1] = gap_seconds
  /\ \E j \in 1..(Len(messages) - 1) :
       (messages[j].time = None) # (messages[j + 1].time = None)

\* C3: in the concatenation of the returned segments every message without
\* a time precedes every message with a known time, and the known times are
\* in non-decreasing order.
Cex_C3_AbsentTimeFirst ==
  pc = "done" =>
    LET out == Concat(segments)
    IN \A j, k \in DOMAIN out :
         j < k =>
           /\ ~(out[j].time # None /\ out[k].time = None)
           /\ (out[j].time # None /\ out[k].time # None
                 => out[j].time[1] <= out[k].time[1])

\* C8: split_segments run on one of its own segments, with the same
\* gap_seconds, returns exactly that segment and nothing else.
Thm_C8_SplitAgainNoOp ==
  (pc = "done" /\ caller = "again") => segments = << fed >>

Wit_C8_SplitAgainNoOp ==
  /\ pc = "done"
  /\ caller = "again"
  /\ segments = << fed >>
  /\ \E j \in 1..(Len(fed) - 1) :
       /\ fed[j] # fed[j + 1]
       /\ SortKey(fed[j]) = SortKey(fed[j + 1])

\* C9: every segmentation done for process_file compares against the value
\* the script assigned to GAP_SECONDS from --gap-minutes.
Cex_C9_GapConfigurable ==
  (caller = "process_file" /\ pc \in {"enter", "scan", "done"})
    => gap_seconds = GAP_SECONDS

\* ==================================================== reconstructor claims

NodeIds == DOMAIN nodes

\* the nodes whose children list is empty
LeafSet == {n \in NodeIds : nodes[n].children = {}}

\* the nodes of the mapping that are parents of nodes of S
ParentsOf(S) ==
  {p \in NodeIds : \E n \in S \cap NodeIds : nodes[n].parent = Some(p)}

\* the nodes of the mapping listed as children by nodes of S
ChildrenOf(S) ==
  {c \in NodeIds : \E n \in S \cap NodeIds : c \in nodes[n].children}

RECURSIVE UpClosure(_, _)
UpClosure(S, k) == IF k = 0 THEN S ELSE UpClosure(S \cup ParentsOf(S), k - 1)

RECURSIVE DownClosure(_, _)
DownClosure(S, k) == IF k = 0 THEN S ELSE DownClosure(S \cup ChildrenOf(S), k - 1)

\* n and the nodes above it
Ancestors(n) == UpClosure({n}, Cardinality(Ids))

\* n and the nodes below it
Subtree(n) == DownClosure({n}, Cardinality(Ids))

NoDuplicates(s) == \A j, k \in DOMAIN s : j # k => s[j] # s[k]

\* the entries of the role-bearing nodes of an upward walk v, root first
RECURSIVE RootFirstEntries(_)
RootFirstEntries(v) ==
  IF v = << >> THEN << >>
  ELSE IF Head(v) \in NodeIds /\ HasRole(nodes[Head(v)].role)
       THEN RootFirstEntries(Tail(v)) \o << Entry(nodes[Head(v)]) >>
       ELSE RootFirstEntries(Tail(v))

MutualParents(A, B) ==
  /\ A # B
  /\ nodes[A].parent = Some(B)
  /\ nodes[B].parent = Some(A)

\* C4: within one upward walk no id is iterated on twice, the walk moves to
\* a parent at most as often as the mapping has ids, and the loop body runs
\* at most once more than that (the extra run finds a parent id that is not in
\* the mapping and leaves the loop).
Thm_C4_WalkBounded ==
  rpc \in {"while", "after"} =>
    /\ NoDuplicates(visit)
    /\ Range(visit) = seen
    /\ steps <= Cardinality(NodeIds)
    /\ Len(visit) <= Cardinality(NodeIds) + 1

\* a walk that went round a cycle through every node and was stopped by the guard
Wit_C4_WalkBounded ==
  /\ rpc = "while"
  /\ cur # None
  /\ cur[1] \in seen
  /\ Cardinality(NodeIds) = 3
  /\ steps = 3

WellFormed ==
  /\ \A n \in NodeIds : nodes[n].parent # None => nodes[n].parent[1] \in NodeIds
  /\ \A p \in NodeIds : \A c \in Ids :
       (c \in nodes[p].children) <=> (c \in NodeIds /\ nodes[c].parent = Some(p))
  /\ \A n \in NodeIds : n \notin UpClosure(ParentsOf({n}), Cardinality(Ids))

\* the returned threads that hold the entry of node n
ThreadsWith(n) == {k \in DOMAIN threads : Entry(nodes[n]) \in Range(threads[k])}

====
